---------------------------- MODULE Spec2Model ----------------------------
(***************************************************************************)
(* Model of src/src/handlers/player_handlers.py: the three request         *)
(* handlers handle_ff_get_players, handle_ff_get_waiver_wire and           *)
(* handle_ff_get_player_weekly_points.                                     *)
(*                                                                         *)
(* One behaviour is one request.  Init fixes the request (handler and      *)
(* arguments) and the environment `env`: for every external dependency     *)
(* (primary provider, lineup optimizer, secondary provider) the set of     *)
(* answers it can give and whether its call can raise.  Every action is    *)
(* the code between two awaits: it issues the awaited call (logged in      *)
(* `calls`), draws the answer from `env` and runs the synchronous code up  *)
(* to the next await or return.                                            *)
(*                                                                         *)
(* The specifications share the actions and differ in the environment:     *)
(*   Spec       all three handlers; every call can raise, lists of every   *)
(*              length, malformed arguments and names (control flow)       *)
(*   SpecScore  get-waiver-wire with analysis; one enriched player, inputs *)
(*              on and around the urgency thresholds and rounding ties     *)
(*   SpecMerge  get-players and get-waiver-wire; names that differ in      *)
(*              letter case between the providers                          *)
(*   SpecWeeks  get-player-weekly-points without failures; start_week,     *)
(*              end_week and current week over and beyond the season       *)
(*   SpecSort   get-players and get-waiver-wire; players whose projections *)
(*              differ, every combination of the include flags             *)
(*   SpecRange  get-waiver-wire with analysis; one enriched player, inputs *)
(*              at the two ends of their ranges                            *)
(*                                                                         *)
(* Numbers are fixed point, so that the Python float arithmetic is exact   *)
(* integer arithmetic here:                                                *)
(*   owned_pct, avg_ownership        tenths of a percent   (10.0% = 100)   *)
(*   yahoo/sleeper projection        hundredths of a point (15.00 = 1500)  *)
(*   expert_confidence, counts       integers                              *)
(*   the five score components, the unrounded waiver_priority and          *)
(*   urgency_threshold               thousandths           (80.5 = 80500)  *)
(*   scarcity_score, the reported waiver_priority (both round(x, 1))       *)
(*                                   tenths                (80.5 = 805)    *)
(* round(x, 1) of a value that is a decimal tie (x.x5) goes up or down     *)
(* depending on the binary representation of the float (round(17.85, 1) is *)
(* 17.9, round(0.35*51 + 20, 1) is 37.8): the direction is part of the     *)
(* environment (env.ties).                                                 *)
(*                                                                         *)
(* An optional value (Python None or a value) is a sequence of length at   *)
(* most one: << >> is None, <<v>> is v.  A name is a sequence of one-      *)
(* character strings, so that str.lower() is computed on its characters.   *)
(* Pass-through fields that no branch reads (team, opponent, sleeper_id,   *)
(* floor/ceiling, matchup, risk_level, injury_status, week, sort,          *)
(* position argument, team_key) are left out of the records.               *)
(***************************************************************************)
EXTENDS Integers, Sequences, FiniteSets, TLC

VARIABLES
    handler,          \* which handler serves the request
    arguments,        \* the `arguments` dict of the request
    env,              \* what the external dependencies can answer
    pc,               \* position of the coroutine: next await, "done", "raised"
    calls,            \* external calls issued so far, in order, with outcome
    count,            \* local `count` after defaulting/validation
    basic_players,    \* local `basic_players`
    enhanced_players, \* local `enhanced_players` (Player objects)
    trending,         \* local `trending`
    idx,              \* loop index (expert-advice loop / weekly loop)
    locals,           \* per scored player: the locals of the scoring block
    result,           \* the dict under construction / returned
    wk                \* locals of handle_ff_get_player_weekly_points

vars == <<handler, arguments, env, pc, calls, count, basic_players,
          enhanced_players, trending, idx, locals, result, wk>>

----------------------------------------------------------------------------
(* Bounds of the model *)

\* longest list the primary provider returns
MaxPlayers == 2

\* longest list the enrichment step returns
MaxEnhanced == 2

\* largest explicit `count` argument
MaxCount == 2

\* longest list the trending feed returns
MaxTrending == 1

\* longest week range of a weekly-points request (end_week - start_week + 1)
MaxWeeks == 2

----------------------------------------------------------------------------
(* Python values *)

None == << >>

Some(v) == <<v>>

\* `x or 0` for an optional number
OrZero(x) == IF x = None THEN 0 ELSE x[1]

ABSENT == "<absent>"

\* a dict as a function from keys; dict.update / item assignment
EmptyDict == [k \in {} |-> k]

Update(d, e) == e @@ d

Min(a, b) == IF a <= b THEN a ELSE b

Max(a, b) == IF a >= b THEN a ELSE b

\* list slice lst[:n] for an integer n (negative n drops from the end)
Slice(lst, n) ==
    LET stop == IF n >= 0 THEN Min(n, Len(lst)) ELSE Max(Len(lst) + n, 0)
    IN  SubSeq(lst, 1, stop)

\* round(n/d, 0) as an integer; d > 0; an exact tie goes up iff tie_up
RoundDiv(n, d, tie_up) ==
    LET q == n \div d
        r == n % d
    IN  IF 2 * r < d THEN q
        ELSE IF 2 * r > d THEN q + 1
        ELSE IF tie_up THEN q + 1 ELSE q

\* str.lower() on one character
LowerChar(c) ==
    CASE c = "A" -> "a"
      [] c = "B" -> "b"
      [] c = "L" -> "l"
      [] c = "O" -> "o"
      [] OTHER -> c

\* mutant: the names are compared as they are
Lower_identity(s) == s

\* str.lower()
Lower(s) == [i \in DOMAIN s |-> LowerChar(s[i])]

\* a name that is None instead of a string: None.lower() raises
NoneName == <<"<None>">>

----------------------------------------------------------------------------
(* Name matching: the generator expressions of the serializers *)

\* index of the first basic player the scan `next(... for p in basic_players
\* if p.get("name", "").lower() == player.name.lower())` stops at: the first
\* whose name is None (the comparison raises there) or matches; 0 if none
FirstMatch(bp, name) ==
    LET hits == {i \in DOMAIN bp :
                    \/ bp[i].name = NoneName
                    \/ Lower(bp[i].name) = Lower(name)}
    IN  IF hits = {} THEN 0 ELSE CHOOSE i \in hits : \A j \in hits : i <= j

\* the scan raises AttributeError (None has no lower())
MatchRaises(bp, name) ==
    LET i == FirstMatch(bp, name) IN i > 0 /\ bp[i].name = NoneName

\* trending_dict = {p["name"].lower(): p for p in trending}: a later entry
\* replaces an earlier one with the same lowered name; 0 if the key is absent
TrendingIndex(tr, name_lower) ==
    LET hits == {i \in DOMAIN tr : Lower(tr[i].name) = name_lower}
    IN  IF hits = {} THEN 0 ELSE CHOOSE i \in hits : \A j \in hits : i >= j

\* building trending_dict raises when an entry's name is None
TrendingRaises(tr) == \E i \in DOMAIN tr : tr[i].name = NoneName

----------------------------------------------------------------------------
(* Positional scarcity, lines 456-485 *)

RECURSIVE OwnedSum(_, _)
OwnedSum(bp, pos) ==
    IF bp = << >> THEN 0
    ELSE (IF Head(bp).position = pos THEN OrZero(Head(bp).owned_pct) ELSE 0)
         + OwnedSum(Tail(bp), pos)

PositionTotal(bp, pos) == Cardinality({i \in DOMAIN bp : bp[i].position = pos})

\* the position_scarcity dict.  `owned_sum += owned` raises on an owned_pct
\* of None; the except clause swallows it before any score is stored, so the
\* dict stays empty.
PositionScarcity(bp, tie_up) ==
    IF \E i \in DOMAIN bp : bp[i].owned_pct = None THEN EmptyDict
    ELSE [pos \in {bp[i].position : i \in DOMAIN bp} |->
            LET total == PositionTotal(bp, pos)
                owned_sum == OwnedSum(bp, pos)
            IN  [scarcity_score |->
                    Min(RoundDiv(owned_sum, 10 * total, tie_up), 100),
                 avg_ownership |-> RoundDiv(owned_sum, total, tie_up),
                 available_count |-> total]]

\* position_scarcity.get(player.position, {}).get("scarcity_score", 0)
PosScarcity(scarcity, pos) ==
    IF pos \in DOMAIN scarcity THEN scarcity[pos].scarcity_score ELSE 0

\* position_scarcity.get(player.position, {"scarcity_score": 0, ...})
PositionContext(scarcity, pos) ==
    IF pos \in DOMAIN scarcity THEN scarcity[pos]
    ELSE [scarcity_score |-> 0, avg_ownership |-> 0, available_count |-> 0]

----------------------------------------------------------------------------
(* Waiver priority, lines 497-563.  Inputs: expert_confidence (integer),   *)
(* proj (hundredths), owned (tenths of a percent), trend_score (integer),  *)
(* pos_scarcity (tenths); results in thousandths.                          *)

\* scarcity_bonus = min(pos_scarcity * 0.5, 5)
ScarcityBonus(pos_scarcity) == Min(pos_scarcity * 50, 5000)

\* mutant: the weight of the expert confidence before scarcity was added
ConfidenceScore_weight_40(expert_confidence) == expert_confidence * 400

\* confidence_score = expert_confidence * 0.35
ConfidenceScore(expert_confidence) == expert_confidence * 350

\* projection_score = min(proj * 2, 30)
ProjectionScore(proj) == Min(proj * 20, 30000)

\* mutant: the difference is taken the other way round
OwnershipBonus_sign_flipped(owned) == Max(0, (owned - 500) * 40)

\* ownership_bonus = max(0, (50 - owned) * 0.4)
OwnershipBonus(owned) == Max(0, (500 - owned) * 40)

\* mutant: the cap of the trending bonus is left out
TrendingBonus_uncapped(trend_score) == trend_score * 1500

\* trending_bonus = min(trend_score * 1.5, 10)
TrendingBonus(trend_score) == Min(trend_score * 1500, 10000)

\* the unrounded local waiver_priority
WaiverPriority(expert_confidence, proj, owned, trend_score, pos_scarcity) ==
    ConfidenceScore(expert_confidence) + ProjectionScore(proj)
        + OwnershipBonus(owned) + TrendingBonus(trend_score)
        + ScarcityBonus(pos_scarcity)

\* base["waiver_priority"] = round(waiver_priority, 1), in tenths
RoundedPriority(waiver_priority, tie_up) == RoundDiv(waiver_priority, 100, tie_up)

\* urgency_threshold = waiver_priority + scarcity_bonus * 2
UrgencyThreshold(waiver_priority, scarcity_bonus) ==
    waiver_priority + scarcity_bonus * 2

\* mutant: the lower bounds are exclusive
PickupUrgency_exclusive(urgency_threshold) ==
    IF urgency_threshold > 80000 THEN "MUST ADD - Elite waiver target"
    ELSE IF urgency_threshold > 65000 THEN "High Priority - Strong pickup"
    ELSE IF urgency_threshold > 50000 THEN "Moderate - Worth a claim"
    ELSE IF urgency_threshold > 35000 THEN "Low Priority - Depth option"
    ELSE "Avoid - Better options available"

\* lines 554-563
PickupUrgency(urgency_threshold) ==
    IF urgency_threshold >= 80000 THEN "MUST ADD - Elite waiver target"
    ELSE IF urgency_threshold >= 65000 THEN "High Priority - Strong pickup"
    ELSE IF urgency_threshold >= 50000 THEN "Moderate - Worth a claim"
    ELSE IF urgency_threshold >= 35000 THEN "Low Priority - Depth option"
    ELSE "Avoid - Better options available"

----------------------------------------------------------------------------
(* Argument access *)

\* arguments.get(flag, default) for a flag given as "true", "false" or ABSENT
ArgFlag(v, default) == IF v = ABSENT THEN default ELSE v = "true"

\* mutant: include_analysis defaults to True
include_analysis_default_true == ArgFlag(arguments.include_analysis, TRUE)

include_analysis == ArgFlag(arguments.include_analysis, FALSE)

include_projections == ArgFlag(arguments.include_projections, TRUE)

include_external_data == ArgFlag(arguments.include_external_data, TRUE)

\* mutant: the enrichment is entered whatever the flags are
needs_enhancement_unconditional == TRUE

needs_enhancement == include_projections \/ include_external_data \/ include_analysis

\* getattr(player, field, default): a Player carries the expert_* attributes
\* only once the expert-advice loop has set them
GetAttr(player, fld, default) ==
    IF fld \in DOMAIN player THEN player[fld] ELSE default

\* mutant: reverse=True is left out
Rank_ascending(keys, i) ==
    1 + Cardinality({j \in DOMAIN keys :
                        keys[j] < keys[i] \/ (keys[j] = keys[i] /\ j < i)})

\* list.sort(key=..., reverse=True): descending by key, equal keys keep
\* their order (the sort is stable)
Rank(keys, i) ==
    1 + Cardinality({j \in DOMAIN keys :
                        keys[j] > keys[i] \/ (keys[j] = keys[i] /\ j < i)})

SortDesc(items, keys) ==
    [r \in 1..Len(items) |->
        items[CHOOSE i \in 1..Len(items) : Rank(keys, i) = r]]

\* mutant: the is_valid() filter is left out
ValidOnly_unfiltered(players) == players

\* [f(x) for x in items if x.is_valid()]: the valid players, in order
RECURSIVE ValidOnly(_)
ValidOnly(players) ==
    IF players = << >> THEN << >>
    ELSE (IF Head(players).valid THEN <<Head(players)>> ELSE << >>)
         \o ValidOnly(Tail(players))

----------------------------------------------------------------------------
(* handle_ff_get_waiver_wire: serialization and scoring of one player *)

serialize_waiver_player(player, bp, tr) ==
    LET m == FirstMatch(bp, player.name)
        t == TrendingIndex(tr, Lower(player.name))
        base ==
            [name |-> player.name,
             position |-> player.position,
             yahoo_projection |->
                IF include_projections THEN player.yahoo_projection ELSE None,
             sleeper_projection |->
                IF include_projections THEN player.sleeper_projection ELSE None,
             owned_pct |-> IF m > 0 THEN OrZero(bp[m].owned_pct) ELSE 0,
             weekly_change |-> IF m > 0 THEN bp[m].weekly_change ELSE Some(0),
             bye |-> IF m > 0 THEN bp[m].bye ELSE "N/A",
             expert_tier |->
                IF include_analysis THEN GetAttr(player, "expert_tier", None)
                ELSE None,
             expert_recommendation |->
                IF include_analysis
                THEN GetAttr(player, "expert_recommendation", None) ELSE None,
             expert_confidence |->
                IF include_analysis
                THEN GetAttr(player, "expert_confidence", None) ELSE None,
             expert_advice |->
                IF include_analysis THEN GetAttr(player, "expert_advice", None)
                ELSE None]
    IN  IF t > 0
        THEN Update(base, [trending_count |-> tr[t].count,
                           trending_position |-> tr[t].position])
        ELSE base

\* the locals of the `if include_analysis:` block for one player
ScoringLocals(player, base, scarcity, tie_up) ==
    LET expert_confidence == OrZero(GetAttr(player, "expert_confidence", Some(50)))
        proj == OrZero(player.yahoo_projection) + OrZero(player.sleeper_projection)
        trend_score == GetAttr(base, "trending_count", 0)
        owned == base.owned_pct
        pos_scarcity == PosScarcity(scarcity, player.position)
        scarcity_bonus == ScarcityBonus(pos_scarcity)
        waiver_priority ==
            WaiverPriority(expert_confidence, proj, owned, trend_score, pos_scarcity)
    IN  [name |-> player.name,
         position |-> player.position,
         expert_confidence |-> expert_confidence,
         proj |-> proj,
         trend_score |-> trend_score,
         owned |-> owned,
         pos_scarcity |-> pos_scarcity,
         scarcity_bonus |-> scarcity_bonus,
         waiver_priority |-> waiver_priority,
         reported |-> RoundedPriority(waiver_priority, tie_up),
         urgency_threshold |-> UrgencyThreshold(waiver_priority, scarcity_bonus)]

\* the fields the analysis block adds to `base`
AnalysisFields(player, l, scarcity) ==
    [waiver_priority |-> l.reported,
     analysis |->
        [tier |-> GetAttr(player, "expert_tier", Some("Unknown")),
         confidence |-> l.expert_confidence,
         recommendation |-> GetAttr(player, "expert_recommendation", Some("Monitor")),
         priority |-> l.reported,
         proj |-> l.proj,
         owned |-> l.owned,
         trending |-> l.trend_score,
         scarcity_text |->
            IF l.pos_scarcity > 70 THEN "HIGH SCARCITY"
            ELSE IF l.pos_scarcity > 40 THEN "Moderate scarcity" ELSE ""],
     pickup_urgency |-> PickupUrgency(l.urgency_threshold),
     position_context |-> PositionContext(scarcity, player.position)]

\* one entry of enhanced_list
WaiverEntry(player, bp, tr, scarcity, tie_up) ==
    LET base == serialize_waiver_player(player, bp, tr)
    IN  IF include_analysis
        THEN Update(base,
                AnalysisFields(player,
                    ScoringLocals(player, base, scarcity, tie_up), scarcity))
        ELSE base

\* the key of the final sort of enhanced_list; 0 for every entry when the
\* list is left unsorted
WaiverSortKey(entry) ==
    IF include_analysis THEN GetAttr(entry, "waiver_priority", 0)
    ELSE IF include_projections
         THEN OrZero(entry.sleeper_projection) + OrZero(entry.yahoo_projection)
         ELSE 0

----------------------------------------------------------------------------
(* handle_ff_get_waiver_wire, lines 264-626 *)

\* count = int(arguments.get("count", 30)); below 1 or not an integer: 30
DefaultWaiverCount == 30

WaiverCount(c) ==
    IF c.k = "int" /\ c.v >= 1 THEN c.v ELSE DefaultWaiverCount

\* the log of external calls: the call and whether it returned (ok) or raised
Call(name, ok) == calls' = Append(calls, [name |-> name, ok |-> ok])

\* the outcomes of an external call (TRUE: it returns, FALSE: it raises)
Outcomes(name) == IF name \in env.fails THEN {TRUE, FALSE} ELSE {TRUE}

\* return: the handler's result is final
Return(r) == result' = r /\ pc' = "done"

\* an exception leaves the handler
Raise == pc' = "raised" /\ UNCHANGED result

\* mutant: the empty league_key passes the check
league_key_absent_only(args) == args.league_key = ABSENT

\* lines 26 and 283: `not arguments.get("league_key")`
league_key_missing(args) == args.league_key \in {ABSENT, ""}

\* mutant: the except clause forgets the note
enhancement_failed_silently(r) == r

\* lines 224-225 and 623-624: `except Exception` of the enhancement block
enhancement_failed(r) == Update(r, [note |-> "Enhancement failed"])

\* lines 283-313: validation and defaults, up to the first await
GW_Validate ==
    /\ handler = "get_waiver_wire" /\ pc = "start"
    /\ IF league_key_missing(arguments)
       THEN /\ Return([status |-> "error",
                       error |-> "league_key is required",
                       message |-> "Please provide a league_key parameter"])
            /\ UNCHANGED count
       ELSE /\ count' = WaiverCount(arguments.count)
            /\ pc' = "get_waiver_wire_players"
            /\ UNCHANGED result
    /\ UNCHANGED <<handler, arguments, env, calls, basic_players,
                   enhanced_players, trending, idx, locals, wk>>

\* lines 315-347: the primary fetch (outside every try), the basic result,
\* the early returns and the import of the enrichment modules
GW_FetchPlayers ==
    /\ handler = "get_waiver_wire" /\ pc = "get_waiver_wire_players"
    /\ \E ok \in Outcomes("primary"), players \in env.primary :
         /\ Call("get_waiver_wire_players", ok)
         /\ IF ~ok
            THEN Raise /\ UNCHANGED basic_players
            ELSE /\ basic_players' = players
                 /\ LET basic == [status |-> "success",
                                  league_key |-> arguments.league_key,
                                  total_players |-> Len(players),
                                  players |-> players]
                    IN  IF players = << >>
                        THEN Return(Update(basic,
                                 [message |-> "No available players found"]))
                        ELSE IF ~needs_enhancement
                        THEN Return(basic)
                        ELSE \E imported \in Outcomes("import") :
                               IF ~imported
                               THEN Return(Update(basic,
                                       [note |-> "Enhanced data unavailable"]))
                               ELSE result' = basic /\ pc' = "parse_yahoo_roster"
    /\ UNCHANGED <<handler, arguments, env, count, enhanced_players,
                   trending, idx, locals, wk>>

\* lines 349-357 and 621-626: roster parsing inside the try block
GW_ParseRoster ==
    /\ handler = "get_waiver_wire" /\ pc = "parse_yahoo_roster"
    /\ \E ok \in Outcomes("parse_roster"), parsed \in env.parsed :
         /\ Call("parse_yahoo_roster", ok)
         /\ IF ~ok
            THEN Return(enhancement_failed(result))
            ELSE IF parsed = 0
            THEN Return(Update(result, [note |-> "No players could be enhanced"]))
            ELSE pc' = "enhance_with_external_data" /\ UNCHANGED result
    /\ UNCHANGED <<handler, arguments, env, count, basic_players,
                   enhanced_players, trending, idx, locals, wk>>

\* mutant: the expert-advice loop does not look at include_analysis
GW_Enhance_always_expert ==
    /\ handler = "get_waiver_wire" /\ pc = "enhance_with_external_data"
    /\ \E ok \in Outcomes("enhance"), players \in env.enhanced :
         /\ Call("enhance_with_external_data", ok)
         /\ IF ~ok
            THEN /\ Return(enhancement_failed(result))
                 /\ UNCHANGED <<enhanced_players, idx>>
            ELSE /\ enhanced_players' = players
                 /\ idx' = 1
                 /\ pc' = IF players # << >>
                          THEN "get_expert_advice" ELSE "get_trending_adds"
                 /\ UNCHANGED result
    /\ UNCHANGED <<handler, arguments, env, count, basic_players, trending,
                   locals, wk>>

\* lines 358-364: external-data enhancement; the expert-advice loop follows
\* only when include_analysis
GW_Enhance ==
    /\ handler = "get_waiver_wire" /\ pc = "enhance_with_external_data"
    /\ \E ok \in Outcomes("enhance"), players \in env.enhanced :
         /\ Call("enhance_with_external_data", ok)
         /\ IF ~ok
            THEN /\ Return(enhancement_failed(result))
                 /\ UNCHANGED <<enhanced_players, idx>>
            ELSE /\ enhanced_players' = players
                 /\ idx' = 1
                 /\ pc' = IF include_analysis /\ players # << >>
                          THEN "get_expert_advice" ELSE "get_trending_adds"
                 /\ UNCHANGED result
    /\ UNCHANGED <<handler, arguments, env, count, basic_players, trending,
                   locals, wk>>

\* lines 364-376: one iteration of the expert-advice loop; a failed lookup
\* is caught inside the loop and replaced by defaults
ExpertFields(advice) ==
    IF advice.ok
    THEN [expert_tier |->
            Some(IF advice.tier = None THEN "Depth" ELSE advice.tier[1]),
          expert_recommendation |-> Some("Bench"),
          expert_confidence |->
            Some(IF advice.confidence = None THEN 50 ELSE advice.confidence[1]),
          expert_advice |-> Some("No analysis available")]
    ELSE [expert_tier |-> Some("Depth"),
          expert_recommendation |-> Some("Monitor"),
          expert_confidence |-> Some(50),
          expert_advice |-> Some("Expert analysis unavailable")]

\* mutant: no try block inside the loop, a failed lookup ends the enrichment
GW_ExpertAdvice_fatal ==
    /\ handler = "get_waiver_wire" /\ pc = "get_expert_advice"
    /\ \E advice \in env.expert :
         /\ Call("get_expert_advice", advice.ok)
         /\ IF advice.ok
            THEN /\ enhanced_players' =
                      [enhanced_players EXCEPT
                          ![idx] = Update(@, ExpertFields(advice))]
                 /\ idx' = idx + 1
                 /\ pc' = IF idx < Len(enhanced_players)
                          THEN "get_expert_advice" ELSE "get_trending_adds"
                 /\ UNCHANGED result
            ELSE /\ Return(enhancement_failed(result))
                 /\ UNCHANGED <<enhanced_players, idx>>
    /\ UNCHANGED <<handler, arguments, env, count, basic_players, trending,
                   locals, wk>>

GW_ExpertAdvice ==
    /\ handler = "get_waiver_wire" /\ pc = "get_expert_advice"
    /\ \E advice \in env.expert :
         /\ Call("get_expert_advice", advice.ok)
         /\ enhanced_players' =
              [enhanced_players EXCEPT ![idx] = Update(@, ExpertFields(advice))]
    /\ idx' = idx + 1
    /\ pc' = IF idx < Len(enhanced_players)
             THEN "get_expert_advice" ELSE "get_trending_adds"
    /\ UNCHANGED <<handler, arguments, env, count, basic_players, trending,
                   locals, result, wk>>

\* the serialization raises: the trending dict or a name comparison
WaiverSerializeRaises(players, bp, tr) ==
    \/ TrendingRaises(tr)
    \/ \E i \in DOMAIN players :
          players[i].valid /\ MatchRaises(bp, players[i].name)

\* lines 378-626: the trending fetch, then serialization, scoring and sort,
\* all inside the try block
GW_Trending ==
    /\ handler = "get_waiver_wire" /\ pc = "get_trending_adds"
    /\ \E ok \in Outcomes("trending"), tr \in env.trending,
          tie_scarcity \in env.ties, tie_priority \in env.ties :
         /\ Call("get_trending_adds", ok)
         /\ IF ~ok
            THEN /\ Return(enhancement_failed(result))
                 /\ UNCHANGED <<trending, locals>>
            ELSE
            /\ trending' = tr
            /\ IF WaiverSerializeRaises(enhanced_players, basic_players, tr)
               THEN /\ Return(enhancement_failed(result))
                    /\ UNCHANGED locals
               ELSE
               LET scarcity ==
                       IF include_analysis
                       THEN PositionScarcity(basic_players, tie_scarcity)
                       ELSE EmptyDict
                   valid == ValidOnly(enhanced_players)
                   bases == [i \in DOMAIN valid |->
                               serialize_waiver_player(valid[i], basic_players, tr)]
                   enhanced_list ==
                       [i \in DOMAIN valid |->
                           WaiverEntry(valid[i], basic_players, tr, scarcity,
                                       tie_priority)]
                   keys == [i \in DOMAIN valid |-> WaiverSortKey(enhanced_list[i])]
               IN  /\ locals' =
                        IF include_analysis
                        THEN [i \in DOMAIN valid |->
                               ScoringLocals(valid[i], bases[i], scarcity,
                                             tie_priority)]
                        ELSE << >>
                   /\ Return(Update(result,
                        [enhanced_players |-> SortDesc(enhanced_list, keys),
                         analysis_context |->
                           [includes |->
                               [projections |-> include_projections,
                                external_data |-> include_external_data,
                                analysis |-> include_analysis,
                                expert_advice |-> include_analysis],
                            position_scarcity |->
                               IF include_analysis THEN Some(scarcity) ELSE None,
                            trending_count |-> Len(tr)]]))
    /\ UNCHANGED <<handler, arguments, env, count, basic_players,
                   enhanced_players, idx, wk>>

----------------------------------------------------------------------------
(* handle_ff_get_players, lines 10-227 *)

\* count = arguments.get("count", 10)
DefaultPlayersCount == 10

PlayersCount(c) == IF c.k = "absent" THEN DefaultPlayersCount ELSE c.v

\* lines 47-81, the payload extractor: one player_info per player entry of
\* the payload, in the provider's order; an entry none of whose payload
\* dicts holds a recognised key leaves player_info empty and is skipped
RECURSIVE ExtractPlayers(_)
ExtractPlayers(entries) ==
    IF entries = << >> THEN << >>
    ELSE (IF Head(entries) = EmptyDict THEN << >> ELSE <<Head(entries)>>)
         \o ExtractPlayers(Tail(entries))

\* free_agent_value = round(proj * (1 - owned / 100), 1), in tenths
FreeAgentValue(proj, owned, tie_up) ==
    RoundDiv(proj * (1000 - owned), 10000, tie_up)

serialize_free_agent_player(player, bp, tie_up) ==
    LET m == FirstMatch(bp, player.name)
        base ==
            [name |-> player.name,
             position |-> player.position,
             yahoo_projection |->
                IF include_projections THEN player.yahoo_projection ELSE None,
             sleeper_projection |->
                IF include_projections THEN player.sleeper_projection ELSE None,
             owned_pct |-> IF m > 0 THEN OrZero(bp[m].owned_pct) ELSE 0,
             bye |-> IF m > 0 THEN bp[m].bye ELSE "N/A",
             on_bye |-> IF include_external_data THEN player.on_bye ELSE FALSE]
        proj == OrZero(player.yahoo_projection) + OrZero(player.sleeper_projection)
    IN  IF include_analysis
        THEN Update(base,
                IF player.on_bye
                THEN [free_agent_value |-> 0, analysis |-> "ON BYE"]
                ELSE [free_agent_value |->
                        FreeAgentValue(proj, base.owned_pct, tie_up),
                      analysis |-> "Low ownership"])
        ELSE base

PlayersSortKey(entry) ==
    IF include_analysis THEN GetAttr(entry, "free_agent_value", 0)
    ELSE IF include_projections
         THEN OrZero(entry.sleeper_projection) + OrZero(entry.yahoo_projection)
         ELSE 0

PlayersSerializeRaises(players, bp) ==
    \E i \in DOMAIN players :
        players[i].valid /\ MatchRaises(bp, players[i].name)

\* lines 26-37: validation and defaults, up to the first await
GP_Validate ==
    /\ handler = "get_players" /\ pc = "start"
    /\ IF league_key_missing(arguments)
       THEN /\ Return([error |-> "league_key is required"])
            /\ UNCHANGED count
       ELSE /\ count' = PlayersCount(arguments.count)
            /\ pc' = "yahoo_api_call"
            /\ UNCHANGED result
    /\ UNCHANGED <<handler, arguments, env, calls, basic_players,
                   enhanced_players, trending, idx, locals, wk>>

\* lines 38-100: the primary fetch (outside every try), extraction, the
\* basic result, the early return and the import.  basic_players[:count]
\* raises TypeError for a count that is not an integer.
GP_FetchPlayers ==
    /\ handler = "get_players" /\ pc = "yahoo_api_call"
    /\ \E ok \in Outcomes("primary"), payload \in env.payload :
         /\ Call("yahoo_api_call", ok)
         /\ IF ~ok
            THEN Raise /\ UNCHANGED basic_players
            ELSE /\ basic_players' = ExtractPlayers(payload)
                 /\ IF arguments.count.k = "bad"
                    THEN Raise
                    ELSE LET basic == [status |-> "success",
                                       league_key |-> arguments.league_key,
                                       total_players |-> Len(basic_players'),
                                       players |-> Slice(basic_players', count)]
                         IN  IF ~needs_enhancement
                             THEN Return(basic)
                             ELSE \E imported \in Outcomes("import") :
                                    IF ~imported
                                    THEN Return(Update(basic,
                                           [note |-> "Enhanced data unavailable"]))
                                    ELSE /\ result' = basic
                                         /\ pc' = "parse_yahoo_roster"
    /\ UNCHANGED <<handler, arguments, env, count, enhanced_players,
                   trending, idx, locals, wk>>

\* lines 102-109 and 222-227: roster parsing inside the try block
GP_ParseRoster ==
    /\ handler = "get_players" /\ pc = "parse_yahoo_roster"
    /\ \E ok \in Outcomes("parse_roster"), parsed \in env.parsed :
         /\ Call("parse_yahoo_roster", ok)
         /\ IF ~ok
            THEN Return(enhancement_failed(result))
            ELSE IF parsed = 0
            THEN Return(Update(result, [note |-> "No players could be enhanced"]))
            ELSE pc' = "enhance_with_external_data" /\ UNCHANGED result
    /\ UNCHANGED <<handler, arguments, env, count, basic_players,
                   enhanced_players, trending, idx, locals, wk>>

\* lines 110-227: external-data enhancement, then serialization and sort
GP_Enhance ==
    /\ handler = "get_players" /\ pc = "enhance_with_external_data"
    /\ \E ok \in Outcomes("enhance"), players \in env.enhanced,
          tie_up \in env.ties :
         /\ Call("enhance_with_external_data", ok)
         /\ IF ~ok
            THEN /\ Return(enhancement_failed(result))
                 /\ UNCHANGED enhanced_players
            ELSE /\ enhanced_players' = players
                 /\ IF PlayersSerializeRaises(players, basic_players)
                    THEN Return(enhancement_failed(result))
                    ELSE LET valid == ValidOnly(players)
                             enhanced_list ==
                               [i \in DOMAIN valid |->
                                   serialize_free_agent_player(valid[i],
                                       basic_players, tie_up)]
                             keys == [i \in DOMAIN valid |->
                                       PlayersSortKey(enhanced_list[i])]
                         IN  Return(Update(result,
                               [enhanced_players |-> SortDesc(enhanced_list, keys),
                                analysis_context |->
                                  [includes |->
                                     [projections |-> include_projections,
                                      external_data |-> include_external_data,
                                      analysis |-> include_analysis]]]))
    /\ UNCHANGED <<handler, arguments, env, count, basic_players, trending,
                   idx, locals, wk>>

----------------------------------------------------------------------------
(* handle_ff_get_player_weekly_points, lines 629-897.  League and player   *)
(* identifiers are strings as sequences of characters.                     *)

\* the last week of the season, lines 839 and 841
LastWeek == 18

Digits == {"0", "1", "2", "3", "4", "5", "6", "7", "8", "9"}

\* "." in raw
HasDot(raw) == \E i \in DOMAIN raw : raw[i] = "."

\* raw.isdigit()
IsDigit(raw) == raw # << >> /\ \A i \in DOMAIN raw : raw[i] \in Digits

\* str.strip()
RECURSIVE LStrip(_)
LStrip(str) ==
    IF str # << >> /\ Head(str) = " " THEN LStrip(Tail(str)) ELSE str

RECURSIVE RStrip(_)
RStrip(str) ==
    IF str # << >> /\ str[Len(str)] = " "
    THEN RStrip(SubSeq(str, 1, Len(str) - 1)) ELSE str

Strip(str) == RStrip(LStrip(str))

\* truthiness of an optional string: neither None nor ""
TruthyStr(x) == x # None /\ x[1] # << >>

\* truthiness of an optional number: neither None nor 0
TruthyNum(x) == x # None /\ x[1] # 0

\* Python `a or b` on optional strings, on optional numbers
OrStr(a, b) == IF TruthyStr(a) THEN a ELSE b

OrNum(a, b) == IF TruthyNum(a) THEN a ELSE b

\* the f-string prefixes "nfl.l." and "nfl.p."
LeaguePrefix == <<"n", "f", "l", ".", "l", ".">>

PlayerPrefix == <<"n", "f", "l", ".", "p", ".">>

\* _normalize_player_key, lines 680-685
normalize_player_key(raw) ==
    IF HasDot(raw) THEN raw
    ELSE IF IsDigit(raw) THEN PlayerPrefix \o raw ELSE raw

\* the loop of _resolve_league_key, lines 668-672: the key of the first
\* league whose id or key is `raw` and whose key is not empty; None if none
RECURSIVE MatchLeague(_, _)
MatchLeague(leagues, raw) ==
    IF leagues = << >> THEN None
    ELSE IF (Head(leagues).id = raw \/ Head(leagues).key = raw)
            /\ Head(leagues).key # << >>
    THEN Some(Head(leagues).key)
    ELSE MatchLeague(Tail(leagues), raw)

\* lines 676-678: the fallback of _resolve_league_key
DefaultLeagueKey(raw) == IF IsDigit(raw) THEN LeaguePrefix \o raw ELSE raw

\* _extract_player_info, lines 749-779: the first player entry with a name
RECURSIVE extract_player_info(_)
extract_player_info(entries) ==
    IF entries = << >> THEN None
    ELSE IF TruthyStr(Head(entries).name) THEN Some(Head(entries))
    ELSE extract_player_info(Tail(entries))

\* _parse_int, lines 823-829, on an argument that is absent (None), an
\* integer or not parseable; the result is an optional integer
parse_int(value, default) ==
    IF value.k = "int" THEN Some(value.v) ELSE default

\* line 836: start_week = max(_parse_int(start_week_raw, 1) or 1, 1)
StartWeek(start_week_raw) ==
    Max(OrNum(parse_int(start_week_raw, Some(1)), Some(1))[1], 1)

\* mutant: the default branch forgets the end of the season
EndWeek_default_uncapped(end_week_raw, start_week, current_week) ==
    LET requested_end_week == parse_int(end_week_raw, None)
    IN  IF requested_end_week # None
        THEN Max(start_week, Min(requested_end_week[1], LastWeek))
        ELSE Max(current_week, start_week)

\* lines 837-841
EndWeek(end_week_raw, start_week, current_week) ==
    LET requested_end_week == parse_int(end_week_raw, None)
    IN  IF requested_end_week # None
        THEN Max(start_week, Min(requested_end_week[1], LastWeek))
        ELSE Min(Max(current_week, start_week), LastWeek)

\* lines 856-858: _safe_float(pts_ppr) or _safe_float(pts)
EarnedPoints(player_stats) == OrNum(player_stats.pts_ppr, player_stats.pts)

\* _extract_projection_points, lines 705-733: the first of the point keys
\* that holds a number, else the total of projected_stats
extract_projection_points(projection) ==
    IF projection.pts_ppr # None THEN projection.pts_ppr
    ELSE IF projection.pts # None THEN projection.pts
    ELSE projection.projected_stats

ErrorResult(error) == [status |-> "error", error |-> error]

\* mutant: the player lookup is not wrapped in a try block
yahoo_player_lookup_uncaught == Raise

\* lines 742-747: `except Exception` of the player lookup
yahoo_player_lookup_failed == Return(ErrorResult("yahoo_player_lookup_failed"))

\* lines 878-897
WeeklyResult(w) ==
    LET r == [status |-> "success",
              league_key |-> w.league_key,
              league_id |-> w.league_input,
              player_name |-> w.player_info.name[1],
              player_key |-> w.player_key,
              sleeper_id |-> w.sleeper_id,
              season |-> w.season,
              start_week |-> w.start_week,
              end_week |-> w.end_week,
              weeks |-> w.weekly_results]
    IN  IF w.warnings # << >> THEN Update(r, [warnings |-> w.warnings]) ELSE r

\* lines 632-659 and 735-736: dependency and argument checks, up to the
\* first await (discover_leagues, or the player lookup for a full key)
WP_Validate ==
    /\ handler = "get_player_weekly_points" /\ pc = "start"
    /\ \E injected \in env.injected :
         LET league_arg == OrStr(arguments.league_id, arguments.league_key)
             player_arg == OrStr(arguments.player_id, arguments.player_key)
         IN  IF ~injected
             THEN Return(ErrorResult("missing_dependency")) /\ UNCHANGED wk
             ELSE IF ~TruthyStr(league_arg)
             THEN Return(ErrorResult("missing_league_id")) /\ UNCHANGED wk
             ELSE IF ~TruthyStr(player_arg)
             THEN Return(ErrorResult("missing_player_id")) /\ UNCHANGED wk
             ELSE LET league_input == Strip(league_arg[1])
                      player_input == Strip(player_arg[1])
                  IN  /\ wk' = [league_input |-> league_input,
                                league_key |-> league_input,
                                player_key |-> normalize_player_key(player_input),
                                weekly_results |-> << >>,
                                warnings |-> << >>]
                      /\ pc' = IF HasDot(league_input)
                               THEN "yahoo_api_call" ELSE "discover_leagues"
                      /\ UNCHANGED result
    /\ UNCHANGED <<handler, arguments, env, calls, count, basic_players,
                   enhanced_players, trending, idx, locals>>

\* _resolve_league_key, lines 664-678: league discovery; its failure is
\* swallowed and the default formatting applies
WP_DiscoverLeagues ==
    /\ handler = "get_player_weekly_points" /\ pc = "discover_leagues"
    /\ \E ok \in Outcomes("discover_leagues"), leagues \in env.leagues :
         /\ Call("discover_leagues", ok)
         /\ LET found == IF ok THEN MatchLeague(leagues, wk.league_input) ELSE None
            IN  wk' = [wk EXCEPT !.league_key =
                           IF found # None THEN found[1]
                           ELSE DefaultLeagueKey(wk.league_input)]
    /\ pc' = "yahoo_api_call"
    /\ UNCHANGED <<handler, arguments, env, count, basic_players,
                   enhanced_players, trending, idx, locals, result>>

\* lines 738-798: the player lookup in its try block, the extraction and
\* the import of the secondary provider
WP_PlayerLookup ==
    /\ handler = "get_player_weekly_points" /\ pc = "yahoo_api_call"
    /\ \E ok \in Outcomes("primary"), payload \in env.player_payload :
         /\ Call("yahoo_api_call", ok)
         /\ IF ~ok
            THEN yahoo_player_lookup_failed /\ UNCHANGED wk
            ELSE LET player_info == extract_player_info(payload)
                 IN  IF player_info = None
                     THEN Return(ErrorResult("player_not_found")) /\ UNCHANGED wk
                     ELSE \E imported \in Outcomes("import") :
                            IF ~imported
                            THEN /\ Return(ErrorResult("sleeper_import_failed"))
                                 /\ UNCHANGED wk
                            ELSE /\ wk' = Update(wk, [player_info |-> player_info[1]])
                                 /\ pc' = "map_yahoo_to_sleeper"
                                 /\ UNCHANGED result
    /\ UNCHANGED <<handler, arguments, env, count, basic_players,
                   enhanced_players, trending, idx, locals>>

\* mutant: a mapping that raises or returns no id is passed over and the
\* flow goes on with the player's key as the id
WP_MapSleeper_passed_over ==
    /\ handler = "get_player_weekly_points" /\ pc = "map_yahoo_to_sleeper"
    /\ \E ok \in Outcomes("map_yahoo_to_sleeper"), sleeper_id \in env.sleeper_ids :
         /\ Call("map_yahoo_to_sleeper", ok)
         /\ LET season == parse_int(arguments.season, None)
                id == IF ok /\ TruthyStr(sleeper_id)
                      THEN sleeper_id[1] ELSE wk.player_key
            IN  /\ wk' = Update(wk, [sleeper_id |-> id, season |-> season])
                /\ pc' = IF season = None
                         THEN "get_current_season" ELSE "get_current_week"
                /\ UNCHANGED result
    /\ UNCHANGED <<handler, arguments, env, count, basic_players,
                   enhanced_players, trending, idx, locals>>

\* lines 800-833: the mapping to a secondary-provider id in its try block,
\* then the season argument
WP_MapSleeper ==
    /\ handler = "get_player_weekly_points" /\ pc = "map_yahoo_to_sleeper"
    /\ \E ok \in Outcomes("map_yahoo_to_sleeper"), sleeper_id \in env.sleeper_ids :
         /\ Call("map_yahoo_to_sleeper", ok)
         /\ IF ~ok
            THEN Return(ErrorResult("sleeper_mapping_failed")) /\ UNCHANGED wk
            ELSE IF ~TruthyStr(sleeper_id)
            THEN Return(ErrorResult("sleeper_id_missing")) /\ UNCHANGED wk
            ELSE LET season == parse_int(arguments.season, None)
                 IN  /\ wk' = Update(wk, [sleeper_id |-> sleeper_id[1],
                                          season |-> season])
                     /\ pc' = IF season = None
                              THEN "get_current_season" ELSE "get_current_week"
                     /\ UNCHANGED result
    /\ UNCHANGED <<handler, arguments, env, count, basic_players,
                   enhanced_players, trending, idx, locals>>

\* line 833: the current-season lookup, outside every try
WP_CurrentSeason ==
    /\ handler = "get_player_weekly_points" /\ pc = "get_current_season"
    /\ \E ok \in Outcomes("get_current_season"), season \in env.seasons :
         /\ Call("get_current_season", ok)
         /\ IF ~ok
            THEN Raise /\ UNCHANGED wk
            ELSE /\ wk' = [wk EXCEPT !.season = Some(season)]
                 /\ pc' = "get_current_week"
                 /\ UNCHANGED result
    /\ UNCHANGED <<handler, arguments, env, count, basic_players,
                   enhanced_players, trending, idx, locals>>

\* lines 835-847 (and 878-897 for an empty range): the current-week
\* lookup, outside every try, then the week range.  Requests whose range
\* is longer than the environment's range_bound are left unexplored.
WP_CurrentWeek ==
    /\ handler = "get_player_weekly_points" /\ pc = "get_current_week"
    /\ \E ok \in Outcomes("get_current_week"), current_week \in env.weeks :
         /\ Call("get_current_week", ok)
         /\ IF ~ok
            THEN Raise /\ UNCHANGED <<wk, idx>>
            ELSE LET start_week == StartWeek(arguments.start_week)
                     end_week == EndWeek(arguments.end_week, start_week, current_week)
                     w == Update(wk, [current_week |-> current_week,
                                      start_week |-> start_week,
                                      end_week |-> end_week])
                 IN  /\ end_week - start_week < env.range_bound
                     /\ wk' = w
                     /\ idx' = start_week
                     /\ IF start_week <= end_week
                        THEN pc' = "get_player_stats" /\ UNCHANGED result
                        ELSE Return(WeeklyResult(w))
    /\ UNCHANGED <<handler, arguments, env, count, basic_players,
                   enhanced_players, trending, locals>>

\* mutant: the except clause of the stats fetch records no warning
WP_Stats_silent ==
    /\ handler = "get_player_weekly_points" /\ pc = "get_player_stats"
    /\ \E ok \in Outcomes("get_player_stats"), player_stats \in env.stats :
         /\ Call("get_player_stats", ok)
         /\ wk' = IF ok
                  THEN Update(wk, [earned_points |-> EarnedPoints(player_stats)])
                  ELSE Update(wk, [earned_points |-> None])
    /\ pc' = "get_projections"
    /\ UNCHANGED <<handler, arguments, env, count, basic_players,
                   enhanced_players, trending, idx, locals, result>>

\* lines 848-860: the stats fetch of week idx in its own try block
WP_Stats ==
    /\ handler = "get_player_weekly_points" /\ pc = "get_player_stats"
    /\ \E ok \in Outcomes("get_player_stats"), player_stats \in env.stats :
         /\ Call("get_player_stats", ok)
         /\ wk' = IF ok
                  THEN Update(wk, [earned_points |-> EarnedPoints(player_stats)])
                  ELSE Update([wk EXCEPT !.warnings =
                                   Append(@, <<idx, "Sleeper stats unavailable">>)],
                              [earned_points |-> None])
    /\ pc' = "get_projections"
    /\ UNCHANGED <<handler, arguments, env, count, basic_players,
                   enhanced_players, trending, idx, locals, result>>

\* lines 862-897: the projections fetch of week idx in its own try block,
\* the week's entry, and either the next week or the result
WP_Projections ==
    /\ handler = "get_player_weekly_points" /\ pc = "get_projections"
    /\ \E ok \in Outcomes("get_projections"), projection \in env.projections :
         /\ Call("get_projections", ok)
         /\ LET projection_points ==
                   IF ok THEN extract_projection_points(projection) ELSE None
                week_entry == [week_number |-> idx,
                               earned_points |-> wk.earned_points,
                               sleeper_projected_points |-> projection_points]
                w == [wk EXCEPT
                        !.warnings =
                           IF ok THEN @
                           ELSE Append(@, <<idx, "Sleeper projections unavailable">>),
                        !.weekly_results = Append(@, week_entry)]
            IN  /\ wk' = w
                /\ IF idx < wk.end_week
                   THEN pc' = "get_player_stats" /\ UNCHANGED result
                   ELSE Return(WeeklyResult(w))
    /\ idx' = idx + 1
    /\ UNCHANGED <<handler, arguments, env, count, basic_players,
                   enhanced_players, trending, locals>>

----------------------------------------------------------------------------
(* Requests and environments *)

\* all sequences over S of length at most n
SeqUpTo(S, n) == UNION {[1..k -> S] : k \in 0..n}

AbsentArg == [k |-> "absent", v |-> 0]

BadArg == [k |-> "bad", v |-> 0]

IntArg(n) == [k |-> "int", v |-> n]

\* the three include_* flags: each given, or all three left to their defaults
FlagArgs ==
    [include_analysis : {"true", "false"},
     include_projections : {"true", "false"},
     include_external_data : {"true", "false"}]
    \cup {[include_analysis |-> ABSENT, include_projections |-> ABSENT,
           include_external_data |-> ABSENT]}

CountArgs == {AbsentArg, BadArg} \cup {IntArg(n) : n \in 0..MaxCount}

ListArgs(LeagueKeys, Counts, Flags) ==
    {f @@ [league_key |-> lk, count |-> c] :
        f \in Flags, lk \in LeagueKeys, c \in Counts}

Al == <<"A", "l">>

Bo == <<"B", "o">>

\* the calls of the external dependencies that can raise
AllCalls ==
    {"primary", "import", "parse_roster", "enhance", "trending",
     "discover_leagues", "map_yahoo_to_sleeper", "get_current_season",
     "get_current_week", "get_player_stats", "get_projections"}

\* a basic player of get_waiver_wire_players
WaiverBasic(Names, Positions, Owned) ==
    [name : Names, position : Positions, owned_pct : Owned,
     weekly_change : {Some(5)}, bye : {"7"}]

\* a player_info of the payload extractor
PlayersBasic(Names, Positions, Owned) ==
    [name : Names, position : Positions, owned_pct : Owned, bye : {"7"}]

\* a Player object of the lineup optimizer
PlayerObjects(Names, Positions, Yahoo, Sleeper, Valid, OnBye) ==
    [name : Names, position : Positions, yahoo_projection : Yahoo,
     sleeper_projection : Sleeper, valid : Valid, on_bye : OnBye]

ExpertAnswers(Tiers, Confidences) ==
    [ok : {TRUE}, tier : Tiers, confidence : Confidences]
    \cup {[ok |-> FALSE, tier |-> None, confidence |-> None]}

TrendingEntries(Names, Counts) ==
    [name : Names, count : Counts, position : {"WR"}]

\* the environment of the weekly-points handler
WeeklyEnv ==
    [injected |-> {TRUE, FALSE},
     leagues |-> {<< >>,
                  <<[id |-> <<"1">>, key |-> <<"4", "2", ".", "l", ".", "1">>]>>},
     player_payload |-> {<< >>, <<[name |-> None]>>, <<[name |-> Some(Al)]>>},
     sleeper_ids |-> {None, Some(<<"9">>)},
     seasons |-> {2025},
     weeks |-> {1, 17, 19},
     range_bound |-> MaxWeeks,
     stats |-> {[pts_ppr |-> Some(0), pts |-> Some(1250)]},
     projections |-> {[pts_ppr |-> None, pts |-> Some(0),
                       projected_stats |-> Some(900)]}]

WeeklyArgs ==
    [league_id : {None, Some(<<"1">>)},
     league_key : {None, Some(<<"n", "f", "l", ".", "l", ".", "1">>)},
     player_id : {None, Some(<<" ", "7">>)},
     player_key : {None, Some(<< >>)},
     start_week : {AbsentArg, BadArg, IntArg(0), IntArg(17), IntArg(20)},
     end_week : {AbsentArg, BadArg, IntArg(2), IntArg(18), IntArg(19)},
     season : {AbsentArg, IntArg(2024)}]

\* the environment of the control-flow specification: every call can raise,
\* lists of every length, a name that is None
FlowEnv ==
    [fails |-> AllCalls,
     primary |-> SeqUpTo(WaiverBasic({Al, NoneName}, {"WR"}, {Some(100)}),
                         MaxPlayers),
     payload |-> SeqUpTo(PlayersBasic({Al, NoneName}, {"WR"}, {Some(100)})
                            \cup {EmptyDict}, MaxPlayers),
     parsed |-> {0, 1},
     enhanced |-> SeqUpTo(PlayerObjects({Al}, {"WR"}, {Some(1000)}, {None},
                                        {TRUE}, {FALSE}), MaxEnhanced),
     expert |-> ExpertAnswers({Some("Starter")}, {Some(80)}),
     trending |-> SeqUpTo(TrendingEntries({Al, NoneName}, {4}), MaxTrending),
     ties |-> {FALSE}]
    @@ WeeklyEnv

InitLocals ==
    /\ pc = "start"
    /\ calls = << >>
    /\ count = 0
    /\ basic_players = << >>
    /\ enhanced_players = << >>
    /\ trending = << >>
    /\ idx = 0
    /\ locals = << >>
    /\ result = EmptyDict
    /\ wk = EmptyDict

Init ==
    /\ \/ /\ handler \in {"get_players", "get_waiver_wire"}
          /\ arguments \in ListArgs({ABSENT, "", "nfl.l.1"}, CountArgs, FlagArgs)
       \/ /\ handler = "get_player_weekly_points"
          /\ arguments \in WeeklyArgs
    /\ env = FlowEnv
    /\ InitLocals

NextPlayers == GP_Validate \/ GP_FetchPlayers \/ GP_ParseRoster \/ GP_Enhance

NextWaiver ==
    \/ GW_Validate
    \/ GW_FetchPlayers
    \/ GW_ParseRoster
    \/ GW_Enhance
    \/ GW_ExpertAdvice
    \/ GW_Trending

NextWeekly ==
    \/ WP_Validate
    \/ WP_DiscoverLeagues
    \/ WP_PlayerLookup
    \/ WP_MapSleeper
    \/ WP_CurrentSeason
    \/ WP_CurrentWeek
    \/ WP_Stats
    \/ WP_Projections

Next == NextPlayers \/ NextWaiver \/ NextWeekly

Spec == Init /\ [][Next]_vars

\* the request of the scoring specification: analysis on, count left out
ScoreArgs ==
    ListArgs({"nfl.l.1"}, {AbsentArg},
             {[include_analysis |-> "true", include_projections |-> "true",
               include_external_data |-> "true"]})

\* the environment of the scoring specification: no call raises but the
\* expert-advice lookup; one enriched player; ownerships, confidences,
\* projections and trending counts on and around the urgency thresholds and
\* the decimal ties of round(x, 1)
ScoreEnv ==
    [fails |-> {},
     primary |-> SeqUpTo(WaiverBasic({Al}, {"WR"}, {Some(100), Some(600)})
                           \cup WaiverBasic({Bo}, {"WR"}, {Some(150), None})
                           \cup WaiverBasic({Bo}, {"RB"}, {Some(100)}),
                         MaxPlayers),
     payload |-> {<< >>},
     parsed |-> {1},
     enhanced |-> [1..1 -> PlayerObjects({Al}, {"WR"}, {Some(1000), Some(125)},
                                         {None, Some(500)}, {TRUE}, {FALSE})],
     expert |-> ExpertAnswers({Some("Starter")},
                              {None, Some(51), Some(80), Some(100)}),
     trending |-> SeqUpTo(TrendingEntries({Al}, {4, 8}), MaxTrending),
     ties |-> {TRUE, FALSE}]
    @@ WeeklyEnv

InitScore ==
    /\ handler = "get_waiver_wire"
    /\ arguments \in ScoreArgs
    /\ env = ScoreEnv
    /\ InitLocals

SpecScore == InitScore /\ [][NextWaiver]_vars

AlUpper == <<"A", "L">>

AlLower == <<"a", "l">>

BoLower == <<"b", "o">>

\* the requests of the merge specification
MergeArgs ==
    ListArgs({"nfl.l.1"}, {AbsentArg},
             [include_analysis : {"true", "false"},
              include_projections : {"true"},
              include_external_data : {"true"}])

\* the players the primary provider knows, each with its own ownership
MergePlayers ==
    {[name |-> Al, position |-> "WR", owned_pct |-> Some(100), bye |-> "7"],
     [name |-> AlLower, position |-> "WR", owned_pct |-> Some(200), bye |-> "9"],
     [name |-> Bo, position |-> "WR", owned_pct |-> Some(300), bye |-> "11"]}

\* the environment of the merge specification: no call raises; the names of
\* the enrichment step and of the trending feed differ from the provider's
\* in letter case
MergeEnv ==
    [fails |-> {},
     primary |-> SeqUpTo({b @@ [weekly_change |-> Some(5)] : b \in MergePlayers},
                         MaxPlayers),
     payload |-> SeqUpTo(MergePlayers, MaxPlayers),
     parsed |-> {1},
     enhanced |-> SeqUpTo(PlayerObjects({AlUpper, BoLower}, {"WR"}, {Some(1000)},
                                        {None}, {TRUE}, {FALSE})
                            \cup PlayerObjects({Al}, {"WR"}, {Some(1000)},
                                               {None}, {FALSE}, {FALSE}),
                          MaxEnhanced),
     expert |-> [ok : {TRUE}, tier : {Some("Starter")}, confidence : {Some(80)}],
     trending |-> SeqUpTo(TrendingEntries({AlLower, AlUpper}, {4, 8}),
                          MaxTrending),
     ties |-> {FALSE}]
    @@ WeeklyEnv

InitMerge ==
    /\ handler \in {"get_players", "get_waiver_wire"}
    /\ arguments \in MergeArgs
    /\ env = MergeEnv
    /\ InitLocals

SpecMerge == InitMerge /\ [][NextPlayers \/ NextWaiver]_vars

\* the requests of the week-range specification: every kind of start_week
\* and end_week, below, inside and beyond the season
WeeksArgs ==
    [league_id : {Some(<<"1">>)},
     league_key : {None},
     player_id : {Some(<<"7">>)},
     player_key : {None},
     start_week : {AbsentArg, BadArg}
                     \cup {IntArg(n) : n \in {-3, 0, 1, 5, 17, 18, 19, 20}},
     end_week : {AbsentArg, BadArg}
                   \cup {IntArg(n) : n \in {-1, 0, 2, 5, 17, 18, 19, 30}},
     season : {AbsentArg, IntArg(2024)}]

\* the environment of the week-range specification: no call raises, so that
\* a range of the whole season is explored; current weeks before, in and
\* after the season
WeeksEnv ==
    [fails |-> {},
     injected |-> {TRUE},
     leagues |-> {<< >>},
     player_payload |-> {<<[name |-> Some(Al)]>>},
     sleeper_ids |-> {Some(<<"9">>)},
     weeks |-> {0, 1, 5, 17, 18, 19, 25},
     range_bound |-> LastWeek]
    @@ FlowEnv

InitWeeks ==
    /\ handler = "get_player_weekly_points"
    /\ arguments \in WeeksArgs
    /\ env = WeeksEnv
    /\ InitLocals

SpecWeeks == InitWeeks /\ [][NextWeekly]_vars

\* the environment of the sort specification: no call raises; enriched
\* players with different projections, ownerships and expert confidences,
\* one of them on bye and one invalid
SortEnv ==
    [fails |-> {},
     primary |-> {<<b>> : b \in WaiverBasic({Al}, {"WR"}, {Some(100)})}
                   \cup {<<a, b>> : a \in WaiverBasic({Al}, {"WR"}, {Some(100)}),
                                    b \in WaiverBasic({Bo}, {"WR"}, {Some(600)})},
     payload |-> {<<b>> : b \in PlayersBasic({Al}, {"WR"}, {Some(100)})}
                   \cup {<<a, b>> : a \in PlayersBasic({Al}, {"WR"}, {Some(100)}),
                                    b \in PlayersBasic({Bo}, {"WR"}, {Some(600)})},
     parsed |-> {1},
     enhanced |-> SeqUpTo(PlayerObjects({Al, Bo}, {"WR"}, {Some(500), Some(1500)},
                                        {None}, {TRUE}, {FALSE})
                            \cup PlayerObjects({Bo}, {"WR"}, {Some(1500)},
                                               {Some(500)}, {TRUE}, {TRUE})
                            \cup PlayerObjects({Al}, {"WR"}, {Some(1500)},
                                               {None}, {FALSE}, {FALSE}),
                          MaxEnhanced),
     expert |-> [ok : {TRUE}, tier : {Some("Starter")},
                 confidence : {Some(50), Some(80)}],
     trending |-> {<< >>} \cup {<<t>> : t \in TrendingEntries({Bo}, {4})},
     ties |-> {FALSE}]
    @@ WeeklyEnv

InitSort ==
    /\ handler \in {"get_players", "get_waiver_wire"}
    /\ arguments \in ListArgs({"nfl.l.1"}, {AbsentArg}, FlagArgs)
    /\ env = SortEnv
    /\ InitLocals

SpecSort == InitSort /\ [][NextPlayers \/ NextWaiver]_vars

\* the environment of the score-range specification: one enriched player
\* whose inputs are at the ends of their ranges (and an expert confidence
\* beyond 100)
RangeEnv ==
    [fails |-> {},
     primary |-> SeqUpTo(WaiverBasic({Al}, {"WR", "RB"}, {Some(0), Some(1000)})
                           \cup WaiverBasic({Bo}, {"WR"}, {Some(1000)}),
                         MaxPlayers),
     payload |-> {<< >>},
     parsed |-> {1},
     enhanced |-> [1..1 -> PlayerObjects({Al}, {"WR"}, {None, Some(2000)},
                                         {None, Some(500)}, {TRUE}, {FALSE})],
     expert |-> ExpertAnswers({Some("Starter")},
                              {None, Some(0), Some(100), Some(120)}),
     trending |-> SeqUpTo(TrendingEntries({Al}, {0, 8}), MaxTrending),
     ties |-> {TRUE, FALSE}]
    @@ WeeklyEnv

InitRange ==
    /\ handler = "get_waiver_wire"
    /\ arguments \in ScoreArgs
    /\ env = RangeEnv
    /\ InitLocals

SpecRange == InitRange /\ [][NextWaiver]_vars

----------------------------------------------------------------------------
(* Properties *)

ListHandlers == {"get_players", "get_waiver_wire"}

Done == pc = "done"

Success == Done /\ "status" \in DOMAIN result /\ result.status = "success"

LastCall == calls[Len(calls)]

\* an optional string argument that is absent or empty
Empty(x) == x = None \/ x = Some(<< >>)

RequiredArgumentMissing ==
    \/ /\ handler \in ListHandlers
       /\ arguments.league_key \in {ABSENT, ""}
    \/ /\ handler = "get_player_weekly_points"
       /\ \/ Empty(arguments.league_id) /\ Empty(arguments.league_key)
          \/ Empty(arguments.player_id) /\ Empty(arguments.player_key)

\* C1: in each of the three handlers, a request whose required argument
\* (league_key; league_id/league_key and player_id/player_key for weekly
\* points) is absent or empty is answered by an error object, and no
\* external call is ever issued for it.
C1_MissingArgumentNoCall ==
    RequiredArgumentMissing =>
        /\ calls = << >>
        /\ pc \in {"start", "done"}
        /\ Done => /\ "error" \in DOMAIN result
                   /\ "players" \notin DOMAIN result
                   /\ "weeks" \notin DOMAIN result

\* a weekly-points request with a league but no player has been answered
C1_Witness ==
    /\ Done
    /\ handler = "get_player_weekly_points"
    /\ ~Empty(arguments.league_id)
    /\ arguments.player_id = None /\ arguments.player_key = Some(<< >>)
    /\ result.error = "missing_player_id"

\* the serialization after the last call of the enrichment block raised
SerializationThrew ==
    /\ calls # << >> /\ LastCall.ok
    /\ \/ /\ handler = "get_waiver_wire"
          /\ LastCall.name = "get_trending_adds"
          /\ WaiverSerializeRaises(enhanced_players, basic_players, trending)
       \/ /\ handler = "get_players"
          /\ LastCall.name = "enhance_with_external_data"
          /\ PlayersSerializeRaises(enhanced_players, basic_players)

\* a step of the enrichment block raised
EnrichmentThrew ==
    \/ \E i \in DOMAIN calls :
          /\ calls[i].name \in {"parse_yahoo_roster",
                                "enhance_with_external_data",
                                "get_trending_adds"}
          /\ ~calls[i].ok
    \/ SerializationThrew

\* C2: in get-players and get-waiver-wire, when a step of the enrichment
\* block raises (roster parsing, enhancement, trending fetch, serialization)
\* the response is a success whose players and total_players are those of
\* the primary fetch, with a note and without enhanced_players.
C2_EnrichmentFailureFallsBack ==
    (handler \in ListHandlers /\ Done /\ EnrichmentThrew) =>
        /\ result.status = "success"
        /\ result.total_players = Len(basic_players)
        /\ result.players =
              IF handler = "get_waiver_wire" THEN basic_players
              ELSE Slice(basic_players, count)
        /\ "note" \in DOMAIN result
        /\ "enhanced_players" \notin DOMAIN result

\* get-waiver-wire answered after its serialization raised on a name that
\* is None, with two basic players
C2_Witness ==
    /\ Done /\ handler = "get_waiver_wire"
    /\ SerializationThrew
    /\ Len(basic_players) = 2
    /\ \A i \in DOMAIN calls : calls[i].ok

\* C3 as stated: no exception ever leaves a handler.
C3_NoExceptionPropagates == pc # "raised"

\* the calls that no try block guards
Unguarded(h, name) ==
    \/ h = "get_players" /\ name = "yahoo_api_call"
    \/ name \in {"get_waiver_wire_players", "get_current_season",
                 "get_current_week"}

\* C3 as amended: a failure of an external call leaves the handler as an
\* exception exactly when the call is the primary fetch of get-players or
\* get-waiver-wire or the current-season/current-week lookup of weekly
\* points; every other failed call is caught, and a handler that returns
\* after one returns a result with a status.  (An exception also leaves
\* get-players when count is not an integer.)
C3_OnlyUnguardedCallsPropagate ==
    /\ pc = "raised" =>
          /\ calls # << >>
          /\ \/ ~LastCall.ok /\ Unguarded(handler, LastCall.name)
             \/ /\ LastCall.ok /\ handler = "get_players"
                /\ arguments.count.k = "bad"
    /\ (calls # << >> /\ ~LastCall.ok /\ Unguarded(handler, LastCall.name))
          => pc = "raised"
    /\ (Done /\ \E i \in DOMAIN calls : ~calls[i].ok)
          => "status" \in DOMAIN result

\* the weekly-points handler answered a failed player lookup by an error
C3_Witness ==
    /\ Done /\ handler = "get_player_weekly_points"
    /\ calls # << >> /\ ~LastCall.ok /\ LastCall.name = "yahoo_api_call"
    /\ result.error = "yahoo_player_lookup_failed"

\* C4: every success response of get-players and get-waiver-wire has
\* total_players = len(players).
C4_TotalIsLenPlayers ==
    (handler \in ListHandlers /\ Success) =>
        result.total_players = Len(result.players)

\* C5: in every success response of get-players and get-waiver-wire, players
\* and (when present) enhanced_players hold at most `count` entries.
C5_ListsTruncatedToCount ==
    (handler \in ListHandlers /\ Success) =>
        /\ Len(result.players) <= count
        /\ "enhanced_players" \in DOMAIN result =>
              Len(result.enhanced_players) <= count

AnalysisOff == arguments.include_analysis \in {"false", ABSENT}

ExpertKeys ==
    {"expert_tier", "expert_recommendation", "expert_confidence", "expert_advice"}

NoExpertLookup == \A i \in DOMAIN calls : calls[i].name # "get_expert_advice"

\* the entries of a list of the response, if the response has it
Entries(key) ==
    IF key \in DOMAIN result
    THEN {result[key][i] : i \in DOMAIN result[key]} ELSE {}

\* C9 as stated: with include_analysis false, no entry of players or
\* enhanced_players of a get-waiver-wire response has a waiver_priority,
\* pickup_urgency or expert_* field, and no expert-advice lookup is issued.
C9_NoAnalysisFields ==
    (handler = "get_waiver_wire" /\ AnalysisOff) =>
        /\ NoExpertLookup
        /\ Done =>
              \A e \in Entries("players") \cup Entries("enhanced_players") :
                 DOMAIN e \cap ({"waiver_priority", "pickup_urgency"}
                                   \cup ExpertKeys) = {}

\* C9 as amended: with include_analysis false, no expert-advice lookup is
\* issued and no entry has a waiver_priority, pickup_urgency, analysis or
\* position_context field; every entry of enhanced_players carries the four
\* expert_* fields with the value None, and no entry of players has them.
C9_ExpertFieldsNull ==
    (handler = "get_waiver_wire" /\ AnalysisOff) =>
        /\ NoExpertLookup
        /\ Done =>
              /\ \A e \in Entries("players") \cup Entries("enhanced_players") :
                    DOMAIN e \cap {"waiver_priority", "pickup_urgency",
                                   "analysis", "position_context"} = {}
              /\ \A e \in Entries("enhanced_players") :
                    /\ ExpertKeys \subseteq DOMAIN e
                    /\ \A k \in ExpertKeys : e[k] = None
              /\ \A e \in Entries("players") : DOMAIN e \cap ExpertKeys = {}

\* a get-waiver-wire response with enhanced players and no analysis
C9_Witness ==
    /\ Done /\ handler = "get_waiver_wire" /\ AnalysisOff
    /\ Entries("enhanced_players") # {}

----------------------------------------------------------------------------
(* Properties of the scoring (specification SpecScore: one enriched player) *)

\* a get-waiver-wire response with one scored player
Scored ==
    /\ Done /\ handler = "get_waiver_wire" /\ include_analysis
    /\ "enhanced_players" \in DOMAIN result
    /\ Len(result.enhanced_players) = 1 /\ Len(enhanced_players) = 1

ScoredPlayer == enhanced_players[1]

ScoredEntry == result.enhanced_players[1]

\* the inputs of the score, read off what the providers returned
InConfidence == ScoredPlayer.expert_confidence[1]

InProjection ==
    OrZero(ScoredPlayer.yahoo_projection) + OrZero(ScoredPlayer.sleeper_projection)

InOwned ==
    LET S == {i \in DOMAIN basic_players :
                 basic_players[i].name = ScoredPlayer.name}
    IN  IF S = {} THEN 0
        ELSE OrZero(basic_players[CHOOSE i \in S : \A j \in S : i <= j].owned_pct)

InTrend ==
    LET S == {i \in DOMAIN trending : trending[i].name = ScoredPlayer.name}
    IN  IF S = {} THEN 0
        ELSE trending[CHOOSE i \in S : \A j \in S : i >= j].count

\* the basic players of the scored player's position
SamePosition ==
    {i \in DOMAIN basic_players :
        basic_players[i].position = ScoredPlayer.position}

RECURSIVE SumOwned(_)
SumOwned(S) ==
    IF S = {} THEN 0
    ELSE LET i == CHOOSE j \in S : TRUE
         IN  OrZero(basic_players[i].owned_pct) + SumOwned(S \ {i})

\* the position has basic players and every basic player has an ownership
ScarcityKnown ==
    /\ SamePosition # {}
    /\ \A i \in DOMAIN basic_players : basic_players[i].owned_pct # None

\* r is n/d rounded to the nearest integer (either one at a tie)
IsRounding(r, n, d) == 2 * (r * d - n) <= d /\ 2 * (n - r * d) <= d

\* s (tenths) is min(avg_owned/10, 10) rounded to one decimal, 0 when the
\* position has no scarcity entry
IsScarcity(s) ==
    IF ScarcityKnown
    THEN LET c == Cardinality(SamePosition)
         IN  IsRounding(s, Min(SumOwned(SamePosition), 1000 * c), 10 * c)
    ELSE s = 0

\* the weighted sum in thousandths, for a position scarcity s in tenths
FormulaSum(s) ==
    350 * InConfidence + Min(20 * InProjection, 30000)
        + Max(0, (500 - InOwned) * 40) + Min(1500 * InTrend, 10000)
        + Min(50 * s, 5000)

\* expert_confidence=80, total_projection=15, owned_pct=10, trend_count=4,
\* avg_owned=10
ExampleInputs ==
    /\ InConfidence = 80 /\ InProjection = 1500 /\ InOwned = 100
    /\ InTrend = 4
    /\ ScarcityKnown
    /\ SumOwned(SamePosition) = 100 * Cardinality(SamePosition)

\* C6 as stated: the reported waiver_priority equals the weighted sum with
\* position_scarcity = min(avg_owned_in_position/10, 10), exactly (the
\* equation is multiplied by the number of basic players of the position).
C6_PriorityIsExactSum ==
    (Scored /\ ScarcityKnown) =>
        LET c == Cardinality(SamePosition)
        IN  c * 100 * ScoredEntry.waiver_priority =
               c * FormulaSum(0) + Min(5 * SumOwned(SamePosition), 5000 * c)

\* C6 as amended: the reported waiver_priority is the weighted sum rounded
\* to one decimal, in which position_scarcity is min(avg_owned/10, 10)
\* rounded to one decimal (0 when the position has no scarcity entry); the
\* example inputs give 80.5, urgency threshold 81.5 and "MUST ADD".
C6_PriorityIsRoundedSum ==
    Scored =>
        LET s == ScoredEntry.position_context.scarcity_score
        IN  /\ IsScarcity(s)
            /\ IsRounding(ScoredEntry.waiver_priority, FormulaSum(s), 100)
            /\ ExampleInputs =>
                  /\ ScoredEntry.waiver_priority = 805
                  /\ locals[1].urgency_threshold = 81500
                  /\ ScoredEntry.pickup_urgency = "MUST ADD - Elite waiver target"

\* the example of the specification has been scored
C6_Witness ==
    /\ Scored /\ ExampleInputs
    /\ ScoredEntry.waiver_priority = 805

\* alternative values of one input of the score
AltConfidences == {0, 50, 51, 80, 100}

AltProjections == {None, Some(125), Some(1000), Some(1500), Some(2000)}

AltTrends == 0..8

AltOwned == {Some(0), Some(100), Some(450), Some(500), Some(600), Some(1000)}

\* the waiver_priority the serialization loop reports for `player`, the
\* position_scarcity dict being the one of the response
Rescored(player, bp, tr, tie_up) ==
    WaiverEntry(player, bp, tr, result.analysis_context.position_scarcity[1],
                tie_up).waiver_priority

\* C7: with the other inputs (the position's scarcity score among them) held
\* fixed, the reported waiver_priority does not decrease when the expert
\* confidence, the projection sum or the trending count grows, and does not
\* increase when owned_pct grows.
C7_PriorityMonotone ==
    Scored =>
        /\ \E tie \in env.ties :
              Rescored(ScoredPlayer, basic_players, trending, tie)
                 = ScoredEntry.waiver_priority
        /\ \A tie \in env.ties :
              LET here == Rescored(ScoredPlayer, basic_players, trending, tie)
                  m == FirstMatch(basic_players, ScoredPlayer.name)
              IN  /\ \A c \in AltConfidences :
                        LET there ==
                              Rescored([ScoredPlayer EXCEPT
                                           !.expert_confidence = Some(c)],
                                       basic_players, trending, tie)
                        IN  /\ c >= InConfidence => there >= here
                            /\ c <= InConfidence => there <= here
                  /\ \A y \in AltProjections :
                        LET there ==
                              Rescored([ScoredPlayer EXCEPT
                                           !.yahoo_projection = y],
                                       basic_players, trending, tie)
                            a == OrZero(y)
                            b == OrZero(ScoredPlayer.yahoo_projection)
                        IN  /\ a >= b => there >= here
                            /\ a <= b => there <= here
                  /\ \A t \in AltTrends :
                        LET there ==
                              Rescored(ScoredPlayer, basic_players,
                                       <<[name |-> ScoredPlayer.name,
                                          count |-> t, position |-> "WR"]>>,
                                       tie)
                        IN  /\ t >= InTrend => there >= here
                            /\ t <= InTrend => there <= here
                  /\ m > 0 =>
                        \A o \in AltOwned :
                           LET there ==
                                 Rescored(ScoredPlayer,
                                          [basic_players EXCEPT
                                              ![m].owned_pct = o],
                                          trending, tie)
                           IN  /\ o[1] >= InOwned => there <= here
                               /\ o[1] <= InOwned => there >= here

\* a scored player owned at 10% whose priority is strictly lower at 60%
C7_Witness ==
    /\ Scored /\ InOwned = 100
    /\ LET m == FirstMatch(basic_players, ScoredPlayer.name)
       IN  /\ m > 0
           /\ \A tie \in env.ties :
                 Rescored(ScoredPlayer,
                          [basic_players EXCEPT ![m].owned_pct = Some(600)],
                          trending, tie)
                    < ScoredEntry.waiver_priority

\* the unrounded score plus twice the scarcity bonus, in thousandths
InThreshold ==
    LET s == ScoredEntry.position_context.scarcity_score
    IN  FormulaSum(s) + 2 * Min(50 * s, 5000)

\* C8: the pickup_urgency label is the one of the unrounded score plus
\* 2*scarcity_bonus, with inclusive lower bounds 80, 65, 50 and 35 and
\* "Avoid" below 35; every scored player has exactly one of the five labels.
C8_UrgencyInclusiveBounds ==
    Scored =>
        LET t == InThreshold
            label == ScoredEntry.pickup_urgency
        IN  /\ t = locals[1].urgency_threshold
            /\ (t >= 80000) <=> (label = "MUST ADD - Elite waiver target")
            /\ (t >= 65000 /\ t < 80000)
                  <=> (label = "High Priority - Strong pickup")
            /\ (t >= 50000 /\ t < 65000) <=> (label = "Moderate - Worth a claim")
            /\ (t >= 35000 /\ t < 50000)
                  <=> (label = "Low Priority - Depth option")
            /\ (t < 35000) <=> (label = "Avoid - Better options available")

\* a player whose urgency threshold is exactly 80 has been labelled
C8_Witness ==
    /\ Scored /\ InThreshold = 80000
    /\ ScoredEntry.pickup_urgency = "MUST ADD - Elite waiver target"

----------------------------------------------------------------------------
(* Properties of the merge (specification SpecMerge) *)

\* the letters of the model's names, upper and lower case
CasePairs == {{"A", "a"}, {"B", "b"}, {"L", "l"}, {"O", "o"}}

\* two names that differ at most in letter case
SameIgnoringCase(a, b) ==
    /\ Len(a) = Len(b)
    /\ \A i \in DOMAIN a : a[i] = b[i] \/ {a[i], b[i]} \in CasePairs

\* the basic players / trending entries with the name, up to letter case
BasicNamed(name) ==
    {i \in DOMAIN basic_players : SameIgnoringCase(basic_players[i].name, name)}

TrendingNamed(name) ==
    {i \in DOMAIN trending : SameIgnoringCase(trending[i].name, name)}

First(S) == CHOOSE i \in S : \A j \in S : i <= j

Last(S) == CHOOSE i \in S : \A j \in S : i >= j

\* C10: every valid enriched player gives one output record; when a basic
\* player has its name up to letter case, the record carries the owned_pct
\* and bye (and weekly_change in get-waiver-wire) of the first such basic
\* player, and the defaults only when there is none; in get-waiver-wire it
\* carries the count of the last trending entry with its name up to letter
\* case.
C10_MergeIgnoresCase ==
    (handler \in ListHandlers /\ Done /\ "enhanced_players" \in DOMAIN result) =>
        /\ Len(result.enhanced_players) =
              Cardinality({i \in DOMAIN enhanced_players :
                              enhanced_players[i].valid})
        /\ \A e \in Entries("enhanced_players") :
              LET S == BasicNamed(e.name)
                  T == TrendingNamed(e.name)
                  waiver == handler = "get_waiver_wire"
              IN  /\ S # {} =>
                        LET b == basic_players[First(S)]
                        IN  /\ e.owned_pct = b.owned_pct[1]
                            /\ e.bye = b.bye
                            /\ waiver => e.weekly_change = b.weekly_change
                  /\ S = {} =>
                        /\ e.owned_pct = 0 /\ e.bye = "N/A"
                        /\ waiver => e.weekly_change = Some(0)
                  /\ (waiver /\ T # {}) =>
                        /\ "trending_count" \in DOMAIN e
                        /\ e.trending_count = trending[Last(T)].count
                  /\ (waiver /\ T = {}) => "trending_count" \notin DOMAIN e

\* get-waiver-wire returned the record of "AL", merged with the basic
\* player "Al" and the trending entry "al"
C10_Witness ==
    /\ Done /\ handler = "get_waiver_wire"
    /\ basic_players # << >> /\ basic_players[1].name = Al
    /\ trending # << >> /\ trending[1].name = AlLower
    /\ \E e \in Entries("enhanced_players") :
          /\ e.name = AlUpper
          /\ e.owned_pct = 100 /\ e.bye = "7"
          /\ "trending_count" \in DOMAIN e

----------------------------------------------------------------------------
(* Properties of the week range (specification SpecWeeks) *)

\* a success response of get-player-weekly-points
WeeklySuccess == handler = "get_player_weekly_points" /\ Success

\* end_week was not supplied, or is not an integer
EndWeekDefaulted == arguments.end_week.k \in {"absent", "bad"}

\* the start week asked for: 1 when absent, not an integer, or below 1
AskedStartWeek ==
    IF arguments.start_week.k = "int" /\ arguments.start_week.v >= 1
    THEN arguments.start_week.v ELSE 1

\* the smaller / the larger of two numbers, spelled out
Least(a, b) == CHOOSE m \in {a, b} : m <= a /\ m <= b

Greatest(a, b) == CHOOSE m \in {a, b} : m >= a /\ m >= b

\* C11 as stated: without a usable end_week, the response's end_week is
\* min(current_week, 18), whatever start_week is.
C11_EndWeekDefaultsToCurrentWeek ==
    (WeeklySuccess /\ EndWeekDefaulted) =>
        result.end_week = Least(wk.current_week, 18)

\* C11 as amended: without a usable end_week, the response's end_week is
\* min(max(current_week, start_week), 18): min(current_week, 18) when
\* start_week <= current_week, min(start_week, 18) otherwise; start_week is
\* 1 when absent, not an integer or below 1.
C11_EndWeekDefault ==
    (WeeklySuccess /\ EndWeekDefaulted) =>
        /\ result.start_week = AskedStartWeek
        /\ result.end_week =
              Least(Greatest(wk.current_week, AskedStartWeek), 18)
        /\ AskedStartWeek <= wk.current_week =>
              result.end_week = Least(wk.current_week, 18)

\* a response whose defaulted end_week is the start week 17, not the
\* current week 1
C11_Witness ==
    /\ WeeklySuccess /\ EndWeekDefaulted
    /\ wk.current_week = 1 /\ result.start_week = 17
    /\ result.end_week = 17
    /\ Len(result.weeks) = 1

\* C12: with an explicit end_week, start_week <= end_week <= 18 in the
\* response.
C12_ExplicitEndWeekClamped ==
    (WeeklySuccess /\ ~EndWeekDefaulted) =>
        /\ result.start_week <= result.end_week
        /\ result.end_week <= 18

----------------------------------------------------------------------------
(* Properties of the expert-advice loop and of the call order *)

\* the expert-advice lookups of the request, in the order of their issue
ExpertCalls ==
    SelectSeq(calls, LAMBDA c : c.name = "get_expert_advice")

\* the call has been issued
Issued(name) == \E i \in DOMAIN calls : calls[i].name = name

\* C13: in get-waiver-wire with include_analysis, the k-th lookup is the one
\* of the k-th enriched player and no player has a second one; a player
\* whose lookup failed has expert_confidence 50 and expert_tier "Depth";
\* once the loop is over every player has had its lookup, whichever of them
\* failed, and when nothing but lookups failed the response has
\* enhanced_players, in which the players of failed lookups carry the
\* defaults.
C13_ExpertFailureDefaults ==
    (handler = "get_waiver_wire" /\ include_analysis) =>
        /\ Len(ExpertCalls) <= Len(enhanced_players)
        /\ pc = "get_expert_advice" => Len(ExpertCalls) = idx - 1
        /\ \A k \in DOMAIN ExpertCalls :
              ~ExpertCalls[k].ok =>
                  /\ GetAttr(enhanced_players[k], "expert_confidence", None)
                        = Some(50)
                  /\ GetAttr(enhanced_players[k], "expert_tier", None)
                        = Some("Depth")
        /\ (calls # << >> /\ LastCall.name = "get_expert_advice") =>
              pc \in {"get_expert_advice", "get_trending_adds"}
        /\ Issued("get_trending_adds") =>
              Len(ExpertCalls) = Len(enhanced_players)
        /\ (Done /\ Issued("get_trending_adds") /\ ~EnrichmentThrew) =>
              /\ "enhanced_players" \in DOMAIN result
              /\ Len(result.enhanced_players) = Len(enhanced_players)
              /\ (\A k \in DOMAIN ExpertCalls : ~ExpertCalls[k].ok) =>
                    \A e \in Entries("enhanced_players") :
                       /\ e.expert_confidence = Some(50)
                       /\ e.expert_tier = Some("Depth")
                       /\ e.analysis.confidence = 50

\* the lookup of the first of two players failed, the second one was
\* issued and succeeded, and the response has both players
C13_Witness ==
    /\ Done /\ handler = "get_waiver_wire" /\ include_analysis
    /\ Len(ExpertCalls) = 2
    /\ ~ExpertCalls[1].ok /\ ExpertCalls[2].ok
    /\ "enhanced_players" \in DOMAIN result
    /\ Len(result.enhanced_players) = 2
    /\ \E e \in Entries("enhanced_players") : e.expert_tier = Some("Depth")

\* the position in `calls` of the mapping to a secondary-provider id, 0
\* before it is issued
MappingCall ==
    LET S == {i \in DOMAIN calls : calls[i].name = "map_yahoo_to_sleeper"}
    IN  IF S = {} THEN 0 ELSE CHOOSE i \in S : TRUE

\* the mapping raised, or returned without an id
Unmapped ==
    /\ handler = "get_player_weekly_points"
    /\ MappingCall > 0
    /\ ~calls[MappingCall].ok \/ "sleeper_id" \notin DOMAIN wk

\* C14: when the mapping raises or returns no id, get-player-weekly-points
\* has returned a result with status "error" (sleeper_mapping_failed or
\* sleeper_id_missing) without a weeks list, and the mapping is the last
\* call of the request.
C14_UnmappedPlayerTerminates ==
    Unmapped =>
        /\ Done
        /\ MappingCall = Len(calls)
        /\ result.status = "error"
        /\ result.error = IF calls[MappingCall].ok THEN "sleeper_id_missing"
                          ELSE "sleeper_mapping_failed"
        /\ "weeks" \notin DOMAIN result

\* the mapping returned no id and the request was answered
C14_Witness ==
    /\ Unmapped /\ Done
    /\ calls[MappingCall].ok
    /\ result.error = "sleeper_id_missing"

----------------------------------------------------------------------------
(* Properties of the order of enhanced_players (specification SpecSort) *)

\* a get-players or get-waiver-wire response with enhanced_players
Enhanced ==
    /\ handler \in ListHandlers /\ Done
    /\ "enhanced_players" \in DOMAIN result

NonIncreasing(keys) ==
    \A i, j \in DOMAIN keys : i < j => keys[i] >= keys[j]

\* the priority score of an entry
PriorityOf(e) ==
    IF handler = "get_waiver_wire" THEN e.waiver_priority
    ELSE e.free_agent_value

\* the projection sum an entry shows / the raw one of an enriched player
ShownProjection(e) == OrZero(e.yahoo_projection) + OrZero(e.sleeper_projection)

RawProjection(p) == OrZero(p.yahoo_projection) + OrZero(p.sleeper_projection)

\* the valid enriched players, in the order of the enrichment step
ValidPlayers == SelectSeq(enhanced_players, LAMBDA p : p.valid)

\* the orders of the valid enriched players
Orders ==
    {f \in [DOMAIN ValidPlayers -> DOMAIN ValidPlayers] :
        \A i, j \in DOMAIN f : i # j => f[i] # f[j]}

\* C15 as stated: enhanced_players is in non-increasing order of the
\* priority score with include_analysis, and otherwise the enriched players
\* appear in a non-increasing order of their raw projection sums, whatever
\* include_projections is.
C15_SortedByScoreOrRawProjection ==
    Enhanced =>
        LET list == result.enhanced_players
        IN  IF include_analysis
            THEN NonIncreasing([i \in DOMAIN list |-> PriorityOf(list[i])])
            ELSE \E f \in Orders :
                    /\ \A i \in DOMAIN list : list[i].name = ValidPlayers[f[i]].name
                    /\ NonIncreasing([i \in DOMAIN f |->
                                         RawProjection(ValidPlayers[f[i]])])

\* C15 as amended: enhanced_players is in non-increasing order of the
\* priority score with include_analysis; without it, in non-increasing
\* order of the projection sum when include_projections is true, and in the
\* order of the enrichment step when include_projections is false.
C15_SortedByScoreOrShownProjection ==
    Enhanced =>
        LET list == result.enhanced_players
        IN  /\ Len(list) = Len(ValidPlayers)
            /\ include_analysis =>
                  NonIncreasing([i \in DOMAIN list |-> PriorityOf(list[i])])
            /\ (~include_analysis /\ include_projections) =>
                  /\ NonIncreasing([i \in DOMAIN list |-> ShownProjection(list[i])])
                  /\ \E f \in Orders :
                        \A i \in DOMAIN list :
                           /\ list[i].name = ValidPlayers[f[i]].name
                           /\ ShownProjection(list[i])
                                 = RawProjection(ValidPlayers[f[i]])
            /\ (~include_analysis /\ ~include_projections) =>
                  \A i \in DOMAIN list : list[i].name = ValidPlayers[i].name

\* a get-waiver-wire response in which the sort by waiver_priority moved
\* the second enriched player to the front
C15_Witness ==
    /\ Enhanced /\ handler = "get_waiver_wire" /\ include_analysis
    /\ Len(result.enhanced_players) = 2 /\ Len(ValidPlayers) = 2
    /\ ValidPlayers[1].name # ValidPlayers[2].name
    /\ result.enhanced_players[1].name = ValidPlayers[2].name
    /\ result.enhanced_players[1].waiver_priority
          > result.enhanced_players[2].waiver_priority

----------------------------------------------------------------------------
(* Properties of the provenance of enhanced_players (specification SpecMerge) *)

----------------------------------------------------------------------------
(* Properties of the order of the calls of get-waiver-wire *)

\* the calls so far are a prefix of: primary fetch, roster parsing,
\* enhancement, the expert-advice lookups, trending fetch
CallsInOrder ==
    LET n == Len(calls)
        lookups == Len(ExpertCalls)
    IN  /\ n >= 1 => calls[1].name = "get_waiver_wire_players"
        /\ n >= 2 => /\ calls[2].name = "parse_yahoo_roster"
                     /\ calls[1].ok /\ basic_players # << >>
        /\ n >= 3 => /\ calls[3].name = "enhance_with_external_data"
                     /\ calls[2].ok
        /\ n >= 4 => calls[3].ok
        /\ \A i \in 4..n :
              \/ calls[i].name = "get_expert_advice"
              \/ i = n /\ calls[i].name = "get_trending_adds"
        /\ lookups > 0 => include_analysis
        /\ lookups <= Len(enhanced_players)
        /\ Issued("get_trending_adds") =>
              lookups = IF include_analysis THEN Len(enhanced_players) ELSE 0
        /\ \A i \in DOMAIN enhanced_players :
              "expert_confidence" \in DOMAIN enhanced_players[i] <=> i <= lookups
        /\ (n >= 1 /\ calls[1].ok /\ basic_players = << >>) =>
              n = 1 /\ Done /\ "enhanced_players" \notin DOMAIN result

\* a step issues at most one call, after the calls issued before it
OneCallAtATime ==
    /\ Len(calls') <= Len(calls) + 1
    /\ SubSeq(calls', 1, Len(calls)) = calls

\* C17: within a get-waiver-wire request the calls are issued one per step
\* in the order primary fetch, roster parsing, enhancement, one expert-
\* advice lookup per enriched player in list order (only with
\* include_analysis), trending fetch; a step follows only a call that
\* returned, or a lookup that failed; nothing follows a primary fetch that
\* returned no players.
C17_CallsSequential ==
    /\ [](handler = "get_waiver_wire" => CallsInOrder)
    /\ [][handler = "get_waiver_wire" => OneCallAtATime]_vars

\* a request with analysis and two enriched players has issued its six calls
C17_Witness ==
    /\ handler = "get_waiver_wire" /\ Done /\ include_analysis
    /\ [i \in DOMAIN calls |-> calls[i].name] =
          <<"get_waiver_wire_players", "parse_yahoo_roster",
            "enhance_with_external_data", "get_expert_advice",
            "get_expert_advice", "get_trending_adds">>

----------------------------------------------------------------------------
(* Properties of the weekly loop *)

\* the per-week fetches of the request, in the order of their issue
WeekCalls ==
    SelectSeq(calls, LAMBDA c : c.name \in {"get_player_stats", "get_projections"})

FailedWeekCalls == SelectSeq(WeekCalls, LAMBDA c : ~c.ok)

\* C18: in a success response of get-player-weekly-points, weeks has one
\* entry per week from start_week to end_week in ascending order (none when
\* start_week > end_week); every week had its stats fetch and then its
\* projections fetch, whichever fetches failed before; a failed fetch
\* leaves its value None in the week's entry; there are as many warnings as
\* failed fetches, and the warnings field is present exactly when a fetch
\* failed.
C18_WeeksCompleteDespiteFailures ==
    WeeklySuccess =>
        LET weeks == result.weeks
            n == Len(weeks)
        IN  /\ n = Greatest(0, result.end_week - result.start_week + 1)
            /\ \A i \in 1..n : weeks[i].week_number = result.start_week + i - 1
            /\ Len(WeekCalls) = 2 * n
            /\ \A i \in 1..n :
                  /\ WeekCalls[2 * i - 1].name = "get_player_stats"
                  /\ WeekCalls[2 * i].name = "get_projections"
                  /\ ~WeekCalls[2 * i - 1].ok => weeks[i].earned_points = None
                  /\ ~WeekCalls[2 * i].ok =>
                        weeks[i].sleeper_projected_points = None
            /\ "warnings" \in DOMAIN result <=> FailedWeekCalls # << >>
            /\ "warnings" \in DOMAIN result =>
                  Len(result.warnings) = Len(FailedWeekCalls)

\* a response over two weeks whose first stats fetch failed: one warning,
\* the first week's points None, the second week fetched and filled in
C18_Witness ==
    /\ WeeklySuccess
    /\ Len(result.weeks) = 2
    /\ ~WeekCalls[1].ok /\ WeekCalls[2].ok /\ WeekCalls[3].ok /\ WeekCalls[4].ok
    /\ result.weeks[1].earned_points = None
    /\ result.weeks[2].earned_points # None
    /\ Len(result.warnings) = 1

\* a response whose range is empty: start_week beyond the season
EmptyRangeAnswered ==
    /\ WeeklySuccess
    /\ result.start_week > result.end_week
    /\ result.weeks = << >>

----------------------------------------------------------------------------
(* Properties of the range of the score (specification SpecRange) *)

\* the inputs of the scored player are in their ranges
InputsInRange ==
    /\ InConfidence \in 0..100
    /\ InOwned \in 0..1000
    /\ InProjection >= 0
    /\ InTrend >= 0

\* C19: a scored player whose expert_confidence and owned_pct are in
\* 0..100 and whose projection sum and trending count are not negative has
\* a reported waiver_priority between 0 and 100, which is also the priority
\* of the analysis text; the unrounded score is between 0 and 100 as well.
C19_PriorityWithinRange ==
    (Scored /\ InputsInRange) =>
        /\ ScoredEntry.waiver_priority \in 0..1000
        /\ ScoredEntry.analysis.priority = ScoredEntry.waiver_priority
        /\ locals[1].waiver_priority \in 0..100000

\* a player scored at exactly 100: confidence 100, projection 20 or more,
\* owned 0, trending 8, position owned at 100% on average
C19_Witness ==
    /\ Scored /\ InputsInRange
    /\ InConfidence = 100 /\ InOwned = 0 /\ InTrend = 8
    /\ ScoredEntry.waiver_priority = 1000

\* a player scored at exactly 0
ScoredZero ==
    /\ Scored /\ InputsInRange
    /\ ScoredEntry.waiver_priority = 0

\* a player scored above 100, with an expert confidence of 120
ScoredBeyondRange ==
    /\ Scored /\ ~InputsInRange
    /\ ScoredEntry.waiver_priority > 1000

----------------------------------------------------------------------------
(* Properties of the basic response (specification Spec) *)

\* a list request with the three include flags false
AllFlagsOff ==
    /\ handler \in ListHandlers
    /\ ~include_projections /\ ~include_external_data /\ ~include_analysis

\* the name of the primary fetch of the handler
PrimaryFetch ==
    IF handler = "get_players" THEN "yahoo_api_call"
    ELSE "get_waiver_wire_players"

BasicFields == {"status", "league_key", "total_players", "players"}

\* C20: in get-players and get-waiver-wire with include_projections,
\* include_external_data and include_analysis all false, the primary fetch
\* is the only call ever issued and the request is over as soon as it has
\* answered; a success response has the basic fields only (with the
\* message of an empty waiver list) and none of enhanced_players,
\* analysis_context and note.
C20_BasicResponseOnly ==
    AllFlagsOff =>
        /\ Len(calls) <= 1
        /\ \A i \in DOMAIN calls : calls[i].name = PrimaryFetch
        /\ calls # << >> => pc \in {"done", "raised"}
        /\ (calls # << >> /\ Done) =>
              /\ calls[1].ok
              /\ Success
              /\ DOMAIN result \cap
                    {"enhanced_players", "analysis_context", "note"} = {}
              /\ DOMAIN result \in
                    {BasicFields, BasicFields \cup {"message"}}
              /\ "message" \in DOMAIN result =>
                    handler = "get_waiver_wire" /\ result.players = << >>
              /\ result.total_players = Len(basic_players)

\* a basic response with players, after the primary fetch alone
C20_Witness ==
    /\ AllFlagsOff /\ Success
    /\ Len(calls) = 1 /\ calls[1].name = PrimaryFetch
    /\ result.players # << >>
    /\ DOMAIN result = BasicFields

=============================================================================
